---------------------------- MODULE Spec2Model ----------------------------
(***************************************************************************)
(* Model of proxxy.py: an S3 backed caching proxy.  Every client request   *)
(* is one asyncio task running Proxxy.handle_request; the tasks share the  *)
(* dictionary Proxxy.in_progress and are interleaved by the event loop at  *)
(* their suspension points only: the HEAD probe of is_cached, the origin   *)
(* GET and the S3 PUT of download_object, and the wait on another task's   *)
(* future in handle_in_progress.  One action of the model is the code a    *)
(* task runs between two suspension points.                                *)
(*                                                                         *)
(* Strings are sequences of one-character strings, so that slicing,        *)
(* endswith and lstrip are computed as Python computes them.               *)
(***************************************************************************)
EXTENDS Integers, Sequences, FiniteSets, TLC

(***************************************************************************)
(* Bounds of the model.                                                    *)
(***************************************************************************)
\* number of client requests (tasks) that arrive
NumReq == 2
\* the clock advances at most this many seconds
MaxClock == 1
\* request paths of the key derivation are at most this long
MaxPathLen == 3

Reqs == 1..NumReq

(***************************************************************************)
(* Configuration (class attributes and add_backend calls).                 *)
(***************************************************************************)
\* Proxxy.suffix: the DNS suffix of this service, here ".d"
suffix == <<".", "d">>
\* Proxxy.expiry_time: seconds a signed URL stays valid
expiry_time == 30
\* Proxxy.backends after add_backend("f", "o") and add_backend("g", "p"):
\* backend name -> remote
backends == (<<"f">> :> <<"o">>) @@ (<<"g">> :> <<"p">>)

\* the hosts clients send: a registered backend, an unregistered prefix,
\* and a host outside the suffix
Hosts == { <<"f", ".", "d">>, <<"u", ".", "d">>, <<"f", ".", "x">> }
\* request.path_qs
Paths == { <<"/", "a">>, <<"/", "b">> }
\* make_app routes GET and HEAD only
Methods == {"GET", "HEAD"}

\* statuses the S3 HEAD probe may answer
ProbeStatuses == {200, 404, 500}
\* statuses the origin may answer
BackendStatuses == {200, 404}
\* statuses S3 may answer to the PUT
PutStatuses == {200, 403}

(***************************************************************************)
(* Python string helpers.                                                  *)
(***************************************************************************)
\* s.endswith(t)
endswith(s, t) ==
    /\ Len(s) >= Len(t)
    /\ SubSeq(s, Len(s) - Len(t) + 1, Len(s)) = t

\* s[:-n] for n > 0
DropLast(s, n) == IF Len(s) > n THEN SubSeq(s, 1, Len(s) - n) ELSE <<>>

\* s.lstrip('/'): every leading slash is removed
RECURSIVE lstrip(_)
lstrip(s) == IF s # <<>> /\ Head(s) = "/" THEN lstrip(Tail(s)) ELSE s

(***************************************************************************)
(* Signed URLs.  A URL is determined by the object, the HTTP method it is  *)
(* signed for and its expiry time (signing time + expires_in).             *)
(***************************************************************************)
NoUrl == [object_name |-> <<>>, method |-> "", expires |-> 0]

make_object_url(object_name, request_method, t) ==
    [object_name |-> object_name, method |-> request_method,
     expires |-> t + expiry_time]

(***************************************************************************)
(* Requests and responses.                                                 *)
(***************************************************************************)
NoRequest == [host |-> <<>>, path_qs |-> <<>>, method |-> ""]
Request(h, p, m) == [host |-> h, path_qs |-> p, method |-> m]

NoResponse == [status |-> 0, text |-> "", location |-> NoUrl, raised |-> ""]
\* aiohttp.web.Response(status=..., text=...) / (status=302, headers=Location)
Response(status, text, location) ==
    [status |-> status, text |-> text, location |-> location, raised |-> ""]
\* handle_request ended by an exception: it propagates out of the handler
\* and the aiohttp server answers the client with a 500
Raised(exc) ==
    [status |-> 500, text |-> "", location |-> NoUrl, raised |-> exc]

\* hostname[:-len(self.suffix)]
backend_name(request) == DropLast(request.host, Len(suffix))

get_backend(request) == backends[backend_name(request)]

get_backend_url(request) ==
    get_backend(request) \o <<"/">> \o lstrip(request.path_qs)

\* a variant of get_object_name that leaves the backend name out
get_object_name_without_backend(request) == lstrip(request.path_qs)

get_object_name(request) ==
    backend_name(request) \o <<"/">> \o lstrip(request.path_qs)

\* validate_request: `raise aiohttp.web.Response(...)` raises an object
\* that is no exception, which in Python is a TypeError
\* ("exceptions must derive from BaseException"); a valid request gives None
validate_request(request) ==
    IF ~endswith(request.host, suffix) THEN Raised("TypeError")
    ELSE IF backend_name(request) \notin DOMAIN backends THEN Raised("TypeError")
    ELSE NoResponse

\* the object names of the requests that pass validation
Keys ==
    { get_object_name(Request(h, p, "GET")) :
        h \in { x \in Hosts : validate_request(Request(x, <<>>, "GET")) = NoResponse },
        p \in Paths }

(***************************************************************************)
(* Futures.  Task r creates at most one future (download_object runs at    *)
(* most once per request), so the future is named by r.                    *)
(***************************************************************************)
NoFuture == [state |-> "none", ok |-> FALSE, url |-> NoUrl]
PendingFuture == [state |-> "pending", ok |-> FALSE, url |-> NoUrl]
\* set_result(url) / set_result(False)
DoneFuture(url) == [state |-> "done", ok |-> TRUE, url |-> url]
FailedFuture == [state |-> "done", ok |-> FALSE, url |-> NoUrl]

VARIABLES
    pc,           \* where each task is: idle, waiting, probing, fetching,
                  \* putting, done
    req,          \* the request each task handles
    response,     \* what handle_request gave back (or raised)
    waitOn,       \* the future a task waits on in handle_in_progress (0: none)
    futs,         \* futs[r]: the asyncio.Future created by task r
    in_progress,  \* Proxxy.in_progress: object name -> future (0: no entry)
    probe_status, \* req.status in is_cached (0: no answer yet)
    backend_status, \* backend_response.status in download_object (0: none)
    trace,        \* the steps each task has taken, in order
    after_failure, \* after_failure[r]: when request r arrived, a download of
                  \* its object had ended in failure and none was running
    now,          \* the clock (time.time())
    closed,       \* how Proxxy.close went: open (not called), closed, raised
    parsed_in,    \* requests handed to get_object_name / get_backend_url
    parsed_out    \* what the two functions gave for them

\* the variables request handling leaves alone
aux == <<closed, parsed_in, parsed_out>>

vars == <<pc, req, response, waitOn, futs, in_progress, probe_status,
          backend_status, trace, after_failure, now, closed, parsed_in,
          parsed_out>>

Init ==
    /\ pc = [r \in Reqs |-> "idle"]
    /\ req = [r \in Reqs |-> NoRequest]
    /\ response = [r \in Reqs |-> NoResponse]
    /\ waitOn = [r \in Reqs |-> 0]
    /\ futs = [r \in Reqs |-> NoFuture]
    /\ in_progress = [k \in Keys |-> 0]
    /\ probe_status = [r \in Reqs |-> 0]
    /\ backend_status = [r \in Reqs |-> 0]
    /\ trace = [r \in Reqs |-> << >>]
    /\ after_failure = [r \in Reqs |-> FALSE]
    /\ now = 0
    /\ closed = "open"
    /\ parsed_in = << >>
    /\ parsed_out = << >>


(***************************************************************************)
(* The request processors, as the values they compute.                     *)
(***************************************************************************)
\* a variant of is_cached that takes only a 404 for absence
is_cached_unless_404(status) == status # 404

\* is_cached: req.status == 200
is_cached(status) == status = 200

\* handle_in_progress after the wait: a truish url is answered with 302,
\* anything else gives None and handle_request goes on to the next processor
handle_in_progress(url) ==
    IF url.ok THEN Response(302, "", url.url) ELSE NoResponse

\* a variant of handle_cached_object that leaves request_method at the
\* default of make_object_url, 'GET'
handle_cached_object_default_method(request, cached, t) ==
    IF cached
    THEN Response(302, "", make_object_url(get_object_name(request), "GET", t))
    ELSE IF request.method = "HEAD"
    THEN Response(404, "object not found", NoUrl)
    ELSE NoResponse

\* handle_cached_object, given what is_cached returned at time t
handle_cached_object(request, cached, t) ==
    IF cached
    THEN Response(302, "",
                  make_object_url(get_object_name(request), request.method, t))
    ELSE IF request.method = "HEAD"
    THEN Response(404, "object not found", NoUrl)
    ELSE NoResponse

\* `object_name in self.in_progress`
InProgress(ip, object_name) == ip[object_name] # 0

\* `del self.in_progress[object_name]`
Del(ip, object_name) == [ip EXCEPT ![object_name] = 0]

(***************************************************************************)
(* How download_object ends.  The try block ends in one of three ways:     *)
(*   "success": S3 answered the PUT; line 296 fulfils the entry with the   *)
(*              url and line 297 returns the 302;                          *)
(*   "backend": the origin answered with a status other than 200; lines    *)
(*              278-281 return that status;                                *)
(*   "raise"  : a call raised exc.                                         *)
(* An exception in the try block runs the except clause, which fulfils     *)
(* the entry with False and raises again; the finally clause deletes the   *)
(* entry.  self.in_progress[object_name] raises KeyError when another      *)
(* task has deleted the entry, and an exception raised by the except or    *)
(* finally clause replaces the pending return value or exception.          *)
(***************************************************************************)
\* the response (or exception) the caller of download_object sees
download_response(ip, fs, object_name, path, status, exc, t) ==
    IF ~InProgress(ip, object_name) THEN Raised("KeyError")
    ELSE IF path = "backend" THEN Response(status, "backend response", NoUrl)
    ELSE IF fs[ip[object_name]].state # "pending" THEN Raised("InvalidStateError")
    ELSE IF path = "success"
    THEN Response(302, "", make_object_url(object_name, "GET", t))
    ELSE Raised(exc)

\* the futures after download_object ended
download_futures(ip, fs, object_name, path, t) ==
    IF /\ InProgress(ip, object_name)
       /\ fs[ip[object_name]].state = "pending"
       /\ path # "backend"
    THEN [fs EXCEPT ![ip[object_name]] =
            IF path = "success"
            THEN DoneFuture(make_object_url(object_name, "GET", t))
            ELSE FailedFuture]
    ELSE fs

\* a variant of download_object without the finally clause
download_finally_skipped(ip, object_name) == ip

\* self.in_progress after download_object ended (the finally clause)
download_finally(ip, object_name) ==
    IF InProgress(ip, object_name) THEN Del(ip, object_name) ELSE ip

(***************************************************************************)
(* Actions.                                                                *)
(***************************************************************************)
\* the object name of task r's request
ObjectOf(r) == get_object_name(req[r])

\* task r is inside download_object (a fetch-and-store execution is active)
Downloading(r) == pc[r] \in {"fetching", "putting"}

\* task r ran download_object and it did not end with the 302
FailedDownload(r) ==
    /\ pc[r] = "done"
    /\ futs[r].state # "none"
    /\ response[r].status # 302

Log(r, steps) == [trace EXCEPT ![r] = @ \o steps]

Finish(r, resp) ==
    /\ pc' = [pc EXCEPT ![r] = "done"]
    /\ response' = [response EXCEPT ![r] = resp]

\* handle_request from the arrival of the request to its first suspension:
\* validate_request, handle_in_progress up to the wait, or else
\* handle_cached_object up to the HEAD request of is_cached.
\* Tasks are interchangeable, so they are numbered in order of arrival.
HandleRequest(r, h, p, m) ==
    /\ pc[r] = "idle"
    /\ \A q \in Reqs : q < r => pc[q] # "idle"
    /\ req' = [req EXCEPT ![r] = Request(h, p, m)]
    /\ after_failure' = [after_failure EXCEPT ![r] =
            /\ validate_request(Request(h, p, m)) = NoResponse
            /\ \E q \in Reqs : /\ FailedDownload(q)
                               /\ ObjectOf(q) = get_object_name(Request(h, p, m))
            /\ \A q \in Reqs : Downloading(q) =>
                    ObjectOf(q) # get_object_name(Request(h, p, m))]
    /\ LET request == Request(h, p, m)
           invalid == validate_request(request)
       IN  IF invalid # NoResponse
           THEN /\ Finish(r, invalid)
                /\ trace' = Log(r, <<"validate_request">>)
                /\ UNCHANGED waitOn
           ELSE IF InProgress(in_progress, get_object_name(request))
           THEN /\ pc' = [pc EXCEPT ![r] = "waiting"]
                /\ waitOn' = [waitOn EXCEPT
                                ![r] = in_progress[get_object_name(request)]]
                /\ trace' = Log(r, <<"validate_request", "handle_in_progress",
                                     "wait">>)
                /\ UNCHANGED response
           ELSE /\ pc' = [pc EXCEPT ![r] = "probing"]
                /\ trace' = Log(r, <<"validate_request", "handle_in_progress",
                                     "handle_cached_object", "head">>)
                /\ UNCHANGED <<response, waitOn>>
    /\ UNCHANGED <<futs, in_progress, probe_status, backend_status, now>>
    /\ UNCHANGED aux

\* the future a task waits on has been fulfilled: handle_in_progress
\* resumes, and on a False result handle_request goes on to
\* handle_cached_object, up to the HEAD request of is_cached
WaitReturn(r) ==
    /\ pc[r] = "waiting"
    /\ futs[waitOn[r]].state = "done"
    /\ LET resp == handle_in_progress(futs[waitOn[r]])
       IN  IF resp # NoResponse
           THEN /\ Finish(r, resp)
                /\ UNCHANGED trace
           ELSE /\ pc' = [pc EXCEPT ![r] = "probing"]
                /\ trace' = Log(r, <<"handle_cached_object", "head">>)
                /\ UNCHANGED response
    /\ UNCHANGED <<req, waitOn, futs, in_progress, probe_status,
                   backend_status, after_failure, now>>
    /\ UNCHANGED aux

\* the HEAD request of is_cached returns: handle_cached_object answers, or
\* gives None and download_object runs up to the origin GET
ProbeReturn(r, status) ==
    /\ pc[r] = "probing"
    /\ probe_status' = [probe_status EXCEPT ![r] = status]
    /\ LET resp == handle_cached_object(req[r], is_cached(status), now)
           object_name == get_object_name(req[r])
       IN  IF resp # NoResponse
           THEN /\ Finish(r, resp)
                /\ UNCHANGED <<futs, in_progress, trace>>
           ELSE /\ pc' = [pc EXCEPT ![r] = "fetching"]
                /\ futs' = [futs EXCEPT ![r] = PendingFuture]
                /\ in_progress' = [in_progress EXCEPT ![object_name] = r]
                /\ trace' = Log(r, <<"download_object", "get">>)
                /\ UNCHANGED response
    /\ UNCHANGED <<req, waitOn, backend_status, after_failure, now>>
    /\ UNCHANGED aux

\* the HEAD request of is_cached raises (network fault): the exception
\* leaves is_cached, handle_cached_object and handle_request
ProbeRaise(r) ==
    /\ pc[r] = "probing"
    /\ Finish(r, Raised("ClientError"))
    /\ UNCHANGED <<req, waitOn, futs, in_progress, probe_status,
                   backend_status, trace, after_failure, now>>
    /\ UNCHANGED aux

\* a variant of download_object that deletes the entry on success only
DownloadExit_keeps_failed_entry(r, path, status, exc) ==
    LET object_name == get_object_name(req[r])
    IN  /\ Finish(r, download_response(in_progress, futs, object_name, path,
                                       status, exc, now))
        /\ futs' = download_futures(in_progress, futs, object_name, path, now)
        /\ in_progress' = IF path = "success"
                          THEN download_finally(in_progress, object_name)
                          ELSE in_progress
        /\ UNCHANGED <<req, waitOn, probe_status, trace, after_failure, now>>
        /\ UNCHANGED aux

\* a variant of download_object that fulfils the entry on success and
\* leaves its removal for later
DownloadExit_fulfils_without_removing(r, path, status, exc) ==
    LET object_name == get_object_name(req[r])
    IN  /\ Finish(r, download_response(in_progress, futs, object_name, path,
                                       status, exc, now))
        /\ futs' = download_futures(in_progress, futs, object_name, path, now)
        /\ in_progress' = IF path = "success"
                          THEN in_progress
                          ELSE download_finally(in_progress, object_name)
        /\ UNCHANGED <<req, waitOn, probe_status, trace, after_failure, now>>
        /\ UNCHANGED aux

\* download_object leaves by `path`
DownloadExit(r, path, status, exc) ==
    LET object_name == get_object_name(req[r])
    IN  /\ Finish(r, download_response(in_progress, futs, object_name, path,
                                       status, exc, now))
        /\ futs' = download_futures(in_progress, futs, object_name, path, now)
        /\ in_progress' = download_finally(in_progress, object_name)
        /\ UNCHANGED <<req, waitOn, probe_status, trace, after_failure, now>>
        /\ UNCHANGED aux

\* a variant of download_object that fulfils the entry with the url as soon
\* as the PUT is issued, before it has returned
FetchReturn_fulfils_before_put(r, status, has_headers) ==
    /\ pc[r] = "fetching"
    /\ backend_status' = [backend_status EXCEPT ![r] = status]
    /\ IF status # 200
       THEN DownloadExit(r, "backend", status, "")
       ELSE IF ~has_headers
       THEN DownloadExit(r, "raise", 0, "KeyError")
       ELSE /\ pc' = [pc EXCEPT ![r] = "putting"]
            /\ trace' = Log(r, <<"put">>)
            /\ futs' = download_futures(in_progress, futs,
                                        get_object_name(req[r]), "success", now)
            /\ UNCHANGED <<req, response, waitOn, in_progress,
                           probe_status, after_failure, now>>
            /\ UNCHANGED aux

\* the origin GET returns.  has_headers: the response carries the
\* Content-Length and Content-Type headers make_put_url reads
FetchReturn(r, status, has_headers) ==
    /\ pc[r] = "fetching"
    /\ backend_status' = [backend_status EXCEPT ![r] = status]
    /\ IF status # 200
       THEN DownloadExit(r, "backend", status, "")
       ELSE IF ~has_headers
       THEN DownloadExit(r, "raise", 0, "KeyError")
       ELSE /\ pc' = [pc EXCEPT ![r] = "putting"]
            /\ trace' = Log(r, <<"put">>)
            /\ UNCHANGED <<req, response, waitOn, futs, in_progress,
                           probe_status, after_failure, now>>
            /\ UNCHANGED aux

\* the origin GET raises
FetchRaise(r) ==
    /\ pc[r] = "fetching"
    /\ DownloadExit(r, "raise", 0, "ClientError")
    /\ UNCHANGED backend_status

\* the S3 PUT returns; its status is not looked at
PutReturn(r, status) ==
    /\ pc[r] = "putting"
    /\ DownloadExit(r, "success", status, "")
    /\ UNCHANGED backend_status

\* the S3 PUT raises
PutRaise(r) ==
    /\ pc[r] = "putting"
    /\ DownloadExit(r, "raise", 0, "ClientError")
    /\ UNCHANGED backend_status

\* time passes
Tick ==
    /\ now < MaxClock
    /\ now' = now + 1
    /\ UNCHANGED <<pc, req, response, waitOn, futs, in_progress,
                   probe_status, backend_status, trace, after_failure>>
    /\ UNCHANGED aux

Next ==
    \/ \E r \in Reqs, h \in Hosts, p \in Paths, m \in Methods :
          HandleRequest(r, h, p, m)
    \/ \E r \in Reqs : WaitReturn(r)
    \/ \E r \in Reqs, status \in ProbeStatuses : ProbeReturn(r, status)
    \/ \E r \in Reqs : ProbeRaise(r)
    \/ \E r \in Reqs, status \in BackendStatuses, has_headers \in BOOLEAN :
          FetchReturn(r, status, has_headers)
    \/ \E r \in Reqs : FetchRaise(r)
    \/ \E r \in Reqs, status \in PutStatuses : PutReturn(r, status)
    \/ \E r \in Reqs : PutRaise(r)
    \/ Tick

Spec == Init /\ [][Next]_vars

(***************************************************************************)
(* Shutdown.  Proxxy.close is called once, when the server stops (the      *)
(* finally clause of __main__, the teardown of the test fixture), with     *)
(* whatever tasks are still suspended; nothing runs after it.              *)
(***************************************************************************)
\* `for f in self.in_progress: f.set_result(False)`: iterating a dict gives
\* its keys, and a str has no set_result, so the first iteration raises
\* AttributeError; with an empty dict the loop body never runs
close_raises(ip) == \E k \in Keys : InProgress(ip, k)

Close ==
    /\ closed = "open"
    /\ IF close_raises(in_progress)
       THEN /\ closed' = "raised"
            /\ UNCHANGED in_progress
       ELSE /\ closed' = "closed"
            /\ in_progress' = [k \in Keys |-> 0]
    /\ UNCHANGED <<pc, req, response, waitOn, futs, probe_status,
                   backend_status, trace, after_failure, now, parsed_in,
                   parsed_out>>

\* the event loop runs handlers only until close
Running == closed = "open"

NextClose ==
    \/ \E r \in Reqs, h \in Hosts, p \in Paths, m \in Methods :
          Running /\ HandleRequest(r, h, p, m)
    \/ \E r \in Reqs : Running /\ WaitReturn(r)
    \/ \E r \in Reqs, status \in ProbeStatuses :
          Running /\ ProbeReturn(r, status)
    \/ \E r \in Reqs : Running /\ ProbeRaise(r)
    \/ \E r \in Reqs, status \in BackendStatuses, has_headers \in BOOLEAN :
          Running /\ FetchReturn(r, status, has_headers)
    \/ \E r \in Reqs : Running /\ FetchRaise(r)
    \/ \E r \in Reqs, status \in PutStatuses :
          Running /\ PutReturn(r, status)
    \/ \E r \in Reqs : Running /\ PutRaise(r)
    \/ Running /\ Tick
    \/ Close

SpecClose == Init /\ [][NextClose]_vars

(***************************************************************************)
(* The request-parsing functions on their own: get_object_name and         *)
(* get_backend_url applied to two validated requests, the hosts and paths  *)
(* drawn from bounded sets.                                                *)
(***************************************************************************)
\* every path_qs of at most MaxPathLen characters out of "/", "a", "b"
ParsedPaths == UNION { [1..n -> {"/", "a", "b"}] : n \in 0..MaxPathLen }

\* the hosts of the registered backends, and the hosts of Hosts
ParsedHosts == Hosts \cup { name \o suffix : name \in DOMAIN backends }

InitParse ==
    /\ pc = [r \in Reqs |-> "idle"]
    /\ req = [r \in Reqs |-> NoRequest]
    /\ response = [r \in Reqs |-> NoResponse]
    /\ waitOn = [r \in Reqs |-> 0]
    /\ futs = [r \in Reqs |-> NoFuture]
    /\ in_progress = [k \in Keys |-> 0]
    /\ probe_status = [r \in Reqs |-> 0]
    /\ backend_status = [r \in Reqs |-> 0]
    /\ trace = [r \in Reqs |-> << >>]
    /\ after_failure = [r \in Reqs |-> FALSE]
    /\ now = 0
    /\ closed = "open"
    /\ parsed_in \in [1..2 -> { Request(h, p, "GET") :
                                  h \in ParsedHosts, p \in ParsedPaths }]
    /\ parsed_out = << >>

\* both requests pass validate_request; get_object_name and
\* get_backend_url are applied to each
ParseRequests ==
    /\ parsed_out = << >>
    /\ \A i \in 1..2 : validate_request(parsed_in[i]) = NoResponse
    /\ parsed_out' = [i \in 1..2 |->
                        [object_name |-> get_object_name(parsed_in[i]),
                         backend_url |-> get_backend_url(parsed_in[i])]]
    /\ UNCHANGED <<pc, req, response, waitOn, futs, in_progress,
                   probe_status, backend_status, trace, after_failure, now,
                   closed, parsed_in>>

NextParse == ParseRequests

SpecParse == InitParse /\ [][NextParse]_vars


(***************************************************************************)
(* Properties.                                                             *)
(***************************************************************************)
\* task r has taken the step named `step`
Did(r, step) == \E i \in 1..Len(trace[r]) : trace[r][i] = step

\* task r joined the in-flight entry of another task
Joined(r) == waitOn[r] # 0

\* C1: single-flight: at no instant are two fetch-and-store executions
\* (download_object) active for the same object name.
C1_SingleFlight ==
    \A r1, r2 \in Reqs :
        (r1 # r2 /\ Downloading(r1) /\ Downloading(r2))
            => ObjectOf(r1) # ObjectOf(r2)

\* C2: a request that joined an entry fulfilled with a location answers 302
\* with that location without probing or fetching itself; a request that
\* found no entry did not wait; and the owner that created an entry
\* fulfilled with a location answers 302 with that same location.
C2_JoinedSameLocation ==
    /\ \A w \in Reqs :
          (Joined(w) /\ futs[waitOn[w]].ok /\ pc[w] = "done")
              => /\ response[w] = Response(302, "", futs[waitOn[w]].url)
                 /\ ~Did(w, "head") /\ ~Did(w, "get") /\ ~Did(w, "put")
    /\ \A w \in Reqs : ~Joined(w) => ~Did(w, "wait")
    /\ \A o \in Reqs :
          (futs[o].ok /\ pc[o] = "done")
              => response[o] = Response(302, "", futs[o].url)

\* C3: when the owner's pipeline has failed, a request that joined its entry
\* neither probes the cache nor fetches, and answers with the owner's
\* failure status.
C3_WaitersShareFailure ==
    \A w \in Reqs :
        (Joined(w) /\ FailedDownload(waitOn[w]))
            => /\ ~Did(w, "head") /\ ~Did(w, "get")
               /\ pc[w] = "done" => response[w].status = response[waitOn[w]].status

\* C4: no waiter is left behind: once the execution that owns an entry has
\* ended (by any exit path), the entry a request waits on is fulfilled.
C4_WaitedEntryFulfilled ==
    \A w \in Reqs :
        (pc[w] = "waiting" /\ pc[waitOn[w]] = "done")
            => futs[waitOn[w]].state = "done"

\* C5: no entry leak: when no download is active for an object name the map
\* has no entry for it, and the step that ends a download (302, backend
\* error or exception) leaves no entry for its object name.
C5_NoEntryLeak ==
    /\ [](\A k \in Keys :
            in_progress[k] # 0 =>
                \E r \in Reqs : Downloading(r) /\ ObjectOf(r) = k)
    /\ [][\A r \in Reqs :
            (Downloading(r) /\ pc'[r] = "done")
                => in_progress'[ObjectOf(r)] = 0]_vars

C5_Witness ==
    \E r1, r2 \in Reqs :
        /\ pc[r1] = "done" /\ response[r1].status = 302 /\ Did(r1, "put")
        /\ FailedDownload(r2)
        /\ ObjectOf(r1) = ObjectOf(r2)
        /\ in_progress[ObjectOf(r1)] = 0

\* C6: backend propagation: when the origin answered the GET with a status
\* other than 200, no PUT is issued and the client receives that status.
C6_BackendPropagation ==
    \A r \in Reqs :
        backend_status[r] \notin {0, 200}
            => /\ ~Did(r, "put")
               /\ pc[r] = "done"
               /\ response[r] = Response(backend_status[r], "backend response",
                                         NoUrl)

\* C7: cache hit precedence: a request whose probe answered 200 issues no
\* origin GET and no PUT, creates no entry, and is answered 302 with a URL
\* for its object signed for its own method.
C7_CacheHitPrecedence ==
    \A r \in Reqs :
        probe_status[r] = 200
            => /\ pc[r] = "done"
               /\ ~Did(r, "get") /\ ~Did(r, "put")
               /\ futs[r].state = "none"
               /\ \E t \in 0..now :
                    response[r] = Response(302, "",
                        make_object_url(ObjectOf(r), req[r].method, t))

C7_Witness ==
    \E r1, r2 \in Reqs :
        /\ probe_status[r1] = 200 /\ req[r1].method = "HEAD"
        /\ probe_status[r2] = 200 /\ req[r2].method = "GET"
        /\ pc[r1] = "done" /\ pc[r2] = "done"

\* C8: HEAD miss: a HEAD request whose probe answered anything but 200 is
\* answered 404 'object not found', issues no origin GET and no PUT, and
\* neither creates nor leaves an entry.
C8_HeadMiss ==
    \A r \in Reqs :
        (req[r].method = "HEAD" /\ probe_status[r] \notin {0, 200})
            => /\ pc[r] = "done"
               /\ response[r] = Response(404, "object not found", NoUrl)
               /\ ~Did(r, "get") /\ ~Did(r, "put")
               /\ futs[r].state = "none"
               /\ \A k \in Keys : in_progress[k] # r

C8_Witness ==
    \E r1, r2 \in Reqs :
        /\ req[r1].method = "HEAD" /\ probe_status[r1] = 500
        /\ req[r2].method = "HEAD" /\ probe_status[r2] = 404
        /\ pc[r1] = "done" /\ pc[r2] = "done"

\* C9: validation: a host outside the suffix is answered 400 'invalid host
\* suffix', an unregistered prefix 400 'invalid host prefix'; a rejected
\* request probes nothing, fetches nothing and creates no entry.
C9_Validation ==
    \A r \in Reqs :
        pc[r] # "idle" =>
            /\ ~endswith(req[r].host, suffix)
                  => response[r] = Response(400, "invalid host suffix", NoUrl)
            /\ (/\ endswith(req[r].host, suffix)
                /\ backend_name(req[r]) \notin DOMAIN backends)
                  => response[r] = Response(400, "invalid host prefix", NoUrl)
            /\ validate_request(req[r]) # NoResponse
                  => /\ pc[r] = "done"
                     /\ ~Did(r, "head") /\ ~Did(r, "get") /\ ~Did(r, "put")
                     /\ futs[r].state = "none"

\* C10: no permanent failure caching: a GET request that arrives after a
\* download of its object has ended in failure (none being active) finds no
\* entry to wait on, is not answered from the failure, and runs the
\* pipeline itself: it probes, and on a miss it fetches from the origin.
C10_NoFailureCaching ==
    \A r \in Reqs :
        (after_failure[r] /\ req[r].method = "GET")
            => /\ ~Joined(r)
               /\ Did(r, "head")
               /\ probe_status[r] \notin {0, 200} => Did(r, "get")

C10_Witness ==
    \E r \in Reqs :
        /\ after_failure[r] /\ req[r].method = "GET"
        /\ Did(r, "put")
        /\ pc[r] = "done" /\ response[r].status = 302

\* C11: every 302 carries a Location signed for the method of the request
\* being answered (and for that request's object), whether it comes from a
\* cache hit, from the request's own download or from a joined entry.
C11_SignedForRequestMethod ==
    \A r \in Reqs :
        response[r].status = 302
            => /\ response[r].location.method = req[r].method
               /\ response[r].location.object_name = ObjectOf(r)

\* C12: a failed store write is never treated as cached: when the PUT
\* raises or is answered with a status other than 200, the owner is not
\* answered 302 and no entry is fulfilled with a location.
C12_FailedWriteNotCached ==
    [][\A r \in Reqs :
          (PutRaise(r) \/ \E status \in PutStatuses \ {200} : PutReturn(r, status))
              => /\ response'[r].status # 302
                 /\ \A o \in Reqs : futs'[o].ok => futs[o].ok]_vars

\* C13: object key derivation: for a validated request the object name is
\* the backend name, "/", and the path without its leading slashes (host
\* "f" + suffix with path "/a" gives "f/a"), the origin URL is the backend's
\* remote, "/", and that stripped path, and two requests with the same path
\* on different registered backends never get the same object name.
C13_ObjectKeyDerivation ==
    parsed_out # << >> =>
        /\ \A i \in 1..2 :
              \E name \in DOMAIN backends :
                 \E k \in 0..Len(parsed_in[i].path_qs) :
                    LET path == parsed_in[i].path_qs
                        rest == SubSeq(path, k + 1, Len(path))
                    IN  /\ parsed_in[i].host = name \o suffix
                        /\ \A j \in 1..k : path[j] = "/"
                        /\ rest # << >> => Head(rest) # "/"
                        /\ parsed_out[i].object_name = name \o <<"/">> \o rest
                        /\ parsed_out[i].backend_url =
                              backends[name] \o <<"/">> \o rest
        /\ \A i \in 1..2 :
              parsed_in[i] = Request(<<"f", ".", "d">>, <<"/", "a", "b">>, "GET")
                 => /\ parsed_out[i].object_name = <<"f", "/", "a", "b">>
                    /\ parsed_out[i].backend_url = <<"o", "/", "a", "b">>
        /\ (/\ parsed_in[1].host # parsed_in[2].host
            /\ parsed_in[1].path_qs = parsed_in[2].path_qs)
              => parsed_out[1].object_name # parsed_out[2].object_name

C13_Witness ==
    /\ parsed_out # << >>
    /\ parsed_in[1].host # parsed_in[2].host
    /\ parsed_in[1].path_qs = <<"/", "a", "b">>
    /\ parsed_in[2].path_qs = <<"/", "a", "b">>

\* C14: every entry placed in the map stays there, under the execution that
\* created it, until it is fulfilled (it is neither dropped nor overwritten
\* while unfulfilled), and it is fulfilled only by the execution that
\* created it, as that execution ends.
C14_EntryOwnedUntilFulfilled ==
    \A o \in Reqs :
        /\ futs[o].state = "pending" => in_progress[ObjectOf(o)] = o
        /\ futs[o].state = "done" => pc[o] = "done"

\* C15: fulfil and remove are atomic for other requests: in every state in
\* which another request can run, every entry in the map is unfulfilled.
C15_EntriesInMapUnfulfilled ==
    \A k \in Keys :
        in_progress[k] # 0 => futs[in_progress[k]].state = "pending"

C15_Witness ==
    \E o, w \in Reqs :
        /\ futs[o].state = "done" /\ futs[o].ok
        /\ in_progress[ObjectOf(o)] = 0
        /\ waitOn[w] = o /\ pc[w] = "waiting"

\* task r issued a PUT for its object, the PUT returned, and r answered 302
\* with the location url
Stored(r, url) ==
    /\ pc[r] = "done"
    /\ Did(r, "put")
    /\ url.object_name = ObjectOf(r)
    /\ response[r] = Response(302, "", url)

\* C16: no half-completed store write is observed: an entry is fulfilled
\* with a location, a downloading owner answers 302, and a waiter is
\* released with a location, only after the PUT of the execution that
\* hands the location out has returned.
C16_LocationAfterPut ==
    /\ \A o \in Reqs : futs[o].ok => \E r \in Reqs : Stored(r, futs[o].url)
    /\ \A r \in Reqs :
          (response[r].status = 302 /\ Did(r, "get"))
              => Stored(r, response[r].location)
    /\ \A w \in Reqs :
          (Joined(w) /\ response[w].status = 302 /\ ~Did(w, "head"))
              => \E r \in Reqs : Stored(r, response[w].location)

C16_Witness ==
    \E w \in Reqs :
        /\ Joined(w) /\ response[w].status = 302 /\ ~Did(w, "head")
        /\ futs[waitOn[w]].ok

\* C17: each request runs validate, check in-flight, check cache,
\* fetch-and-store in that order: no probe before validation passed, no
\* origin fetch before the probe reported absent, the cache check and the
\* fetch reached only by the request that holds the entry for its object,
\* and a finished valid request has a response.
C17_FixedOrderOwnerOnly ==
    \A r \in Reqs :
        /\ Did(r, "head") => validate_request(req[r]) = NoResponse
        /\ Did(r, "get") => probe_status[r] \notin {0, 200}
        /\ Did(r, "put") => backend_status[r] = 200
        /\ pc[r] = "probing" => in_progress[ObjectOf(r)] = r
        /\ Downloading(r) => in_progress[ObjectOf(r)] = r
        /\ pc[r] = "done" => response[r] # NoResponse

\* C18: close() fulfils every entry of the map with False, releasing the
\* waiters, and leaves the map empty, with or without fetches in progress.
C18_CloseReleasesWaiters ==
    [][(closed = "open" /\ closed' # "open")
          => /\ closed' = "closed"
             /\ \A k \in Keys : in_progress'[k] = 0
             /\ \A k \in Keys :
                   in_progress[k] # 0 => futs'[in_progress[k]] = FailedFuture]_vars

\* C19: a download whose origin GET returned 200 and whose PUT returned
\* always ends with the 302, and its completion and cleanup find the entry
\* it created.
C19_CompletionFindsOwnEntry ==
    [][\A r \in Reqs :
          (\E status \in PutStatuses : PutReturn(r, status))
              => /\ in_progress[ObjectOf(r)] = r
                 /\ response'[r].status = 302
                 /\ response'[r].raised = ""]_vars

=============================================================================
